---- MODULE Spec2Model ----
(***************************************************************************)
(* A model of the Space Mission Design Assistant: the credential store     *)
(* and the chat history store of database_manager.py, the source           *)
(* deduplication and ranking pass of streamlit_chatbot.py, and the         *)
(* Streamlit client session (session state, header, modals, sidebar and    *)
(* chat interface) of streamlit_chatbot.py.                                *)
(*                                                                         *)
(* Python's None is the empty tuple <<>>; a present optional value x is    *)
(* the one-element tuple <<x>>.                                            *)
(***************************************************************************)
EXTENDS Integers, Sequences, FiniteSets, TLC

VARIABLES
    now,            \* the wall clock read by datetime.utcnow() / datetime.now()
    users,          \* table users, in rowid order
    chat_history,   \* table chat_history, in physical (insertion) order
    call,           \* the store operation invoked last, with its arguments (in the
                    \* client session: the form or button that called the store)
    ret,            \* what that operation returned
    txn,            \* the database sessions open in concurrent create_user calls
    sources,        \* _format_sources: the source list passed in
    unique_sources, \* _format_sources: the list unique_sources
    rk_pc,          \* _format_sources: "called", "done", or "again" after a second pass
    rk_first,       \* the list the previous pass produced, when a second pass has run
    ss,             \* st.session_state of one client session
    result          \* render_chat_interface: the engine's outcome and the local `result`

vars == <<now, users, chat_history, call, ret, txn, sources, unique_sources,
          rk_pc, rk_first, ss, result>>

credVars == <<users>>
histVars == <<chat_history>>
rankVars == <<sources, unique_sources, rk_pc, rk_first>>
appVars  == <<ss, result>>

-----------------------------------------------------------------------------
(* Bounds of the model *)

MaxTime  == 1      \* the clock runs over 0..MaxTime
MaxUsers == 2      \* rows of table users
MaxRows  == 2      \* rows of table chat_history
MaxChatId == 3     \* largest primary key of table chat_history
MaxMsgs  == 2      \* messages of the in-memory conversation
MaxCount == 1      \* largest value of query_count
MaxLen   == 2      \* sources of a list handed to _format_sources, fillers aside

(* Python values *)

None == <<>>
Some(x) == <<x>>
\* Python truthiness of an Optional[int]: None and 0 are falsy.
Truthy(x) == x # None /\ x # Some(0)

Times == 0..MaxTime

-----------------------------------------------------------------------------
(* The wall clock.  datetime.utcnow() is not monotonic: the clock advances, *)
(* and an adjustment of the host's clock steps it back.                     *)

Tick ==
    /\ now < MaxTime
    /\ now' = now + 1

ClockStepBack ==
    /\ now > 0
    /\ now' = now - 1

-----------------------------------------------------------------------------
(* Credential store: database_manager.py, User and DatabaseManager *)

Names     == {"alice", "a@x.com"}
Passwords == {"Abcdef12", "Zyxwvu98"}
Salts     == {"salt1"}

\* bcrypt.hashpw(password, salt): the salt travels with the digest; the digest
\* is a one-way function of salt and password, kept symbolic.
hashpw(password, salt) == [salt |-> salt, digest |-> <<"bcrypt", salt, password>>]

\* bcrypt.checkpw(password, hashed): re-hash under the stored salt and compare.
checkpw(password, hashed) == hashpw(password, hashed.salt) = hashed

\* The check with the unique constraint on email left out.
IntegrityErrorUsernameOnly(table, username, email) ==
    \E i \in 1..Len(table) : table[i].username = username

\* The unique constraints of User.username and User.email: the INSERT raises
\* IntegrityError when either value is already in the table.
IntegrityError(table, username, email) ==
    \E i \in 1..Len(table) : table[i].username = username \/ table[i].email = email

\* The row create_user inserts; id is the autoincrement primary key.
NewUser(table, username, email, password, salt) ==
    [id            |-> Len(table) + 1,
     username      |-> username,
     email         |-> email,
     password_hash |-> hashpw(password, salt),
     created_at    |-> now,
     last_login    |-> None,
     is_active     |-> TRUE]

\* The table after create_user: unchanged after the rollback.
create_user_table(table, username, email, password, salt) ==
    IF IntegrityError(table, username, email)
    THEN table
    ELSE Append(table, NewUser(table, username, email, password, salt))

\* What create_user returns.
create_user_ret(table, username, email, password, salt) ==
    IF IntegrityError(table, username, email)
    THEN None
    ELSE Some([id         |-> Len(table) + 1,
               username   |-> username,
               email      |-> email,
               created_at |-> now])

\* What a call on the credential store leaves alone.
CredFrame == UNCHANGED <<now, txn, chat_history, sources, unique_sources, rk_pc, rk_first,
                         ss, result>>

CreateUser(username, email, password, salt) ==
    /\ Len(users) < MaxUsers \/ IntegrityError(users, username, email)
    /\ users' = create_user_table(users, username, email, password, salt)
    /\ ret'   = create_user_ret(users, username, email, password, salt)
    /\ call'  = [op |-> "create_user", username |-> username, email |-> email]

\* The rows the filter (username == x) | (email == x) selects.
MatchingUsers(table, username_or_email) ==
    {i \in 1..Len(table) : \/ table[i].username = username_or_email
                           \/ table[i].email = username_or_email}

\* .first() without ORDER BY: any one of the selected rows, or None.
FirstChoices(table, username_or_email) ==
    IF MatchingUsers(table, username_or_email) = {}
    THEN {0}
    ELSE MatchingUsers(table, username_or_email)

\* authenticate_user succeeds on the row `first` picked.
AuthSucceeds(table, i, password) ==
    /\ i # 0
    /\ table[i].is_active
    /\ checkpw(password, table[i].password_hash)

\* The time of the attempt recorded on the account before the password is
\* checked.
authenticate_user_stamps_attempt(table, i, password) ==
    IF i # 0 /\ table[i].is_active
    THEN [table EXCEPT ![i].last_login = Some(now)]
    ELSE table

authenticate_user_table(table, i, password) ==
    IF AuthSucceeds(table, i, password)
    THEN [table EXCEPT ![i].last_login = Some(now)]
    ELSE table

authenticate_user_ret(table, i, password) ==
    IF AuthSucceeds(table, i, password)
    THEN Some([id         |-> table[i].id,
               username   |-> table[i].username,
               email      |-> table[i].email,
               last_login |-> Some(now)])
    ELSE None

AuthenticateUser(username_or_email, password) ==
    \E i \in FirstChoices(users, username_or_email) :
        /\ users' = authenticate_user_table(users, i, password)
        /\ ret'   = authenticate_user_ret(users, i, password)
        /\ call'  = [op |-> "authenticate_user", identifier |-> username_or_email,
                     password |-> password]

\* An exception that leaves the call instead of a returned value.
Raise(exception) == <<"raise", exception>>

\* authenticate_user when session.commit() of line 111 fails: no except
\* clause handles the error, the finally clause closes the session, which
\* rolls the update back, and the exception leaves the call.
AuthenticateUserCommitFails(username_or_email, password) ==
    \E i \in FirstChoices(users, username_or_email) :
        /\ AuthSucceeds(users, i, password)
        /\ users' = users
        /\ ret'   = Raise("OperationalError")
        /\ call'  = [op |-> "authenticate_user", identifier |-> username_or_email,
                     password |-> password]

\* Administrative deactivation: is_active is cleared outside this program.
AdminDeactivate(i) ==
    /\ i \in 1..Len(users)
    /\ users[i].is_active
    /\ users' = [users EXCEPT ![i].is_active = FALSE]
    /\ ret'   = None
    /\ call'  = [op |-> "deactivate"]

CredInit ==
    /\ users = <<>>

CredTick ==
    /\ Tick
    /\ UNCHANGED <<users, call, ret, chat_history, sources, unique_sources, rk_pc,
                   rk_first, ss, result, txn>>

CredNext ==
    \/ \E username \in Names, email \in Names, password \in Passwords, salt \in Salts :
           CreateUser(username, email, password, salt) /\ CredFrame
    \/ \E username_or_email \in Names, password \in Passwords :
           AuthenticateUser(username_or_email, password) /\ CredFrame
    \/ \E i \in 1..MaxUsers : AdminDeactivate(i) /\ CredFrame
    \/ CredTick

-----------------------------------------------------------------------------
(* create_user called from two client sessions at once.  Each call has its  *)
(* own database session: session.add() keeps the new row in that session,  *)
(* session.commit() sends the INSERT and commits it, and the database      *)
(* applies the unique constraints and the insert as one step.              *)

DbSessions == {"t1", "t2"}

NoTxn == [pc |-> "idle"]

\* Lines 69-80: the password is hashed and the row is added to the session.
CreateUserAdd(p, username, email, password, salt) ==
    /\ txn[p].pc = "idle"
    /\ txn' = [txn EXCEPT ![p] = [pc |-> "added", username |-> username, email |-> email,
                                  password |-> password, salt |-> salt]]
    /\ UNCHANGED <<users, call, ret>>
    /\ UNCHANGED <<now, chat_history, sources, unique_sources, rk_pc, rk_first, ss, result>>

\* Lines 81-91: the commit, and the value create_user returns: the account,
\* or None after IntegrityError and the rollback.
CreateUserCommit(p) ==
    /\ txn[p].pc = "added"
    /\ LET t == txn[p]
       IN  /\ Len(users) < MaxUsers \/ IntegrityError(users, t.username, t.email)
           /\ users' = create_user_table(users, t.username, t.email, t.password, t.salt)
           /\ ret' = create_user_ret(users, t.username, t.email, t.password, t.salt)
           /\ call' = [op |-> "create_user", username |-> t.username, email |-> t.email]
           /\ txn' = [txn EXCEPT ![p] =
                         [pc |-> "returned", username |-> t.username, email |-> t.email,
                          ret |-> create_user_ret(users, t.username, t.email,
                                                  t.password, t.salt)]]
    /\ UNCHANGED <<now, chat_history, sources, unique_sources, rk_pc, rk_first, ss, result>>

\* Lines 92-93: session.close(); the client session may call again.
CreateUserClose(p) ==
    /\ txn[p].pc = "returned"
    /\ txn' = [txn EXCEPT ![p] = NoTxn]
    /\ UNCHANGED <<users, call, ret>>
    /\ UNCHANGED <<now, chat_history, sources, unique_sources, rk_pc, rk_first, ss, result>>

ConcNext ==
    \/ \E p \in DbSessions, username \in Names, email \in Names, password \in Passwords,
          salt \in Salts : CreateUserAdd(p, username, email, password, salt)
    \/ \E p \in DbSessions : CreateUserCommit(p)
    \/ \E p \in DbSessions : CreateUserClose(p)

-----------------------------------------------------------------------------
(* Chat history store: database_manager.py, ChatHistory and DatabaseManager *)

SessionIds == {"s1", "s2"}
UserIds    == {None, Some(1), Some(2)}

\* json.dumps / json.loads of a source list.
json_dumps(x) == <<"json", x>>
json_loads(text) == text[2]

\* The integer primary key of a new row: one more than the largest in use.
NextChatId(table) ==
    IF table = <<>> THEN 1
    ELSE 1 + CHOOSE m \in {table[i].id : i \in 1..Len(table)} :
                 \A i \in 1..Len(table) : table[i].id <= m

\* save_chat_message: the inserted row is appended to the table.
save_chat_message(table, session_id, message_type, message, srcs, user_id) ==
    Append(table,
           [id           |-> NextChatId(table),
            user_id      |-> user_id,
            session_id   |-> session_id,
            message_type |-> message_type,
            message      |-> message,
            sources      |-> IF srcs # <<>> THEN Some(json_dumps(srcs)) ELSE None,
            created_at   |-> now])

\* ORDER BY created_at: one row placed into an ordered list.  Rows of equal
\* created_at come in an order the database is free to choose: `ties` is
\* "after" (the later row follows its equals) or "before".
InsertByCreatedAt(sorted, row, ties) ==
    LET before == {i \in 1..Len(sorted) :
                      \/ sorted[i].created_at < row.created_at
                      \/ sorted[i].created_at = row.created_at /\ ties = "after"}
        k == Cardinality(before)
    IN  SubSeq(sorted, 1, k) \o <<row>> \o SubSeq(sorted, k + 1, Len(sorted))

\* The query without its ORDER BY: rows come in physical order.
unordered(rows, ties) == rows

RECURSIVE order_by_created_at(_, _)
order_by_created_at(rows, ties) ==
    IF rows = <<>> THEN <<>>
    ELSE InsertByCreatedAt(order_by_created_at(SubSeq(rows, 1, Len(rows) - 1), ties),
                           rows[Len(rows)], ties)

\* The dict get_session_chat_history builds of one row.
SessionHistoryEntry(chat) ==
    [id           |-> chat.id,
     message_type |-> chat.message_type,
     message      |-> chat.message,
     sources      |-> IF chat.sources # None THEN Some(json_loads(chat.sources[1])) ELSE None,
     created_at   |-> chat.created_at]

RECURSIVE MapSessionHistoryEntry(_)
MapSessionHistoryEntry(rows) ==
    IF rows = <<>> THEN <<>>
    ELSE <<SessionHistoryEntry(Head(rows))>> \o MapSessionHistoryEntry(Tail(rows))

\* The rows get_session_chat_history reads, in the order it reads them.
session_chat_rows(table, session_id, ties) ==
    LET InSession(chat) == chat.session_id = session_id
    IN  order_by_created_at(SelectSeq(table, InSession), ties)

get_session_chat_history(table, session_id, ties) ==
    MapSessionHistoryEntry(session_chat_rows(table, session_id, ties))

\* The dict get_user_chat_history builds of one row.
UserHistoryEntry(chat) ==
    [id           |-> chat.id,
     session_id   |-> chat.session_id,
     message_type |-> chat.message_type,
     message      |-> chat.message,
     sources      |-> IF chat.sources # None THEN Some(json_loads(chat.sources[1])) ELSE None,
     created_at   |-> chat.created_at]

Reversed(seq) == [i \in 1..Len(seq) |-> seq[Len(seq) + 1 - i]]

\* get_user_chat_history: the user's rows by created_at descending, OFFSET
\* rows skipped and at most LIMIT rows kept, then reversed.
get_user_chat_history(table, user_id, limit, offset, ties) ==
    LET OfUser(chat) == chat.user_id = Some(user_id)
        desc  == Reversed(order_by_created_at(SelectSeq(table, OfUser), ties))
        last  == IF offset + limit < Len(desc) THEN offset + limit ELSE Len(desc)
        chats == SubSeq(desc, offset + 1, last)
    IN  [i \in 1..Len(chats) |-> UserHistoryEntry(Reversed(chats)[i])]

\* The deletion without the filter on the owner.
delete_whole_session(table, session_id, user_id) ==
    LET Stays(chat) == chat.session_id # session_id
    IN  SelectSeq(table, Stays)

\* delete_session_history: the table without the rows the query selects.
delete_session_history(table, session_id, user_id) ==
    LET Stays(chat) ==
            ~ (/\ chat.session_id = session_id
               /\ (Truthy(user_id) => chat.user_id = user_id))
    IN  SelectSeq(table, Stays)

\* The role of the next turn of a session: user and assistant turns alternate.
NextMessageType(table, session_id) ==
    LET InSession(chat) == chat.session_id = session_id
    IN  IF Len(SelectSeq(table, InSession)) % 2 = 0 THEN "user" ELSE "assistant"

\* What a call on the chat history store leaves alone.
HistFrame == UNCHANGED <<now, txn, users, sources, unique_sources, rk_pc, rk_first, ss, result>>

SaveChatMessage(session_id, user_id) ==
    /\ Len(chat_history) < MaxRows
    /\ NextChatId(chat_history) <= MaxChatId
    /\ chat_history' = save_chat_message(chat_history, session_id,
                            NextMessageType(chat_history, session_id), "text", <<>>, user_id)
    /\ call' = [op |-> "save_chat_message"]
    /\ ret'  = None

GetSessionChatHistory(session_id, ties) ==
    /\ ret'  = get_session_chat_history(chat_history, session_id, ties)
    /\ call' = [op |-> "get_session_chat_history", session_id |-> session_id]
    /\ UNCHANGED chat_history

DeleteSessionHistory(session_id, user_id) ==
    /\ chat_history' = delete_session_history(chat_history, session_id, user_id)
    /\ call' = [op |-> "delete_session_history", session_id |-> session_id,
                user_id |-> user_id]
    /\ ret'  = None

HistInit ==
    /\ chat_history = <<>>

HistTick ==
    /\ Tick
    /\ UNCHANGED <<users, call, ret, chat_history, sources, unique_sources, rk_pc,
                   rk_first, ss, result, txn>>

HistClockStepBack ==
    /\ ClockStepBack
    /\ UNCHANGED <<users, call, ret, chat_history, sources, unique_sources, rk_pc,
                   rk_first, ss, result, txn>>

HistNext ==
    \/ \E session_id \in SessionIds, user_id \in UserIds :
           SaveChatMessage(session_id, user_id) /\ HistFrame
    \/ \E session_id \in SessionIds, ties \in {"after", "before"} :
           GetSessionChatHistory(session_id, ties) /\ HistFrame
    \/ \E session_id \in SessionIds, user_id \in UserIds :
           DeleteSessionHistory(session_id, user_id) /\ HistFrame
    \/ HistTick
    \/ HistClockStepBack

\* The session entry that counts the rows of the session of every user.
SessionEntryAnyUser(table, user_id, session_id) ==
    LET rows == {i \in 1..Len(table) : table[i].session_id = session_id}
        mine == {i \in rows : table[i].user_id = Some(user_id)}
    IN  [session_id    |-> session_id,
         first_message |-> CHOOSE c \in {table[i].created_at : i \in mine} :
                               \A i \in mine : c <= table[i].created_at,
         last_message  |-> CHOOSE c \in {table[i].created_at : i \in mine} :
                               \A i \in mine : c >= table[i].created_at,
         message_count |-> Cardinality(rows)]

\* get_user_sessions: the row the GROUP BY query returns for one session of
\* the user, as the dict built of it.
SessionEntry(table, user_id, session_id) ==
    LET rows == {i \in 1..Len(table) :
                    table[i].user_id = Some(user_id) /\ table[i].session_id = session_id}
    IN  [session_id    |-> session_id,
         first_message |-> CHOOSE c \in {table[i].created_at : i \in rows} :
                               \A i \in rows : c <= table[i].created_at,
         last_message  |-> CHOOSE c \in {table[i].created_at : i \in rows} :
                               \A i \in rows : c >= table[i].created_at,
         message_count |-> Cardinality(rows)]

\* The session ids the WHERE and GROUP BY clauses leave.
UserSessionIds(table, user_id) ==
    {table[i].session_id : i \in {k \in 1..Len(table) : table[k].user_id = Some(user_id)}}

\* get_user_sessions: the lists the query can return, ORDER BY
\* MAX(created_at) DESC; the database orders sessions of equal last message
\* as it likes.
get_user_sessions(table, user_id) ==
    LET entries == {SessionEntry(table, user_id, s) : s \in UserSessionIds(table, user_id)}
        n       == Cardinality(entries)
    IN  {list \in [1..n -> entries] :
            /\ \A i, j \in 1..n : i # j => list[i] # list[j]
            /\ \A i, j \in 1..n : i < j => list[i].last_message >= list[j].last_message}

\* get_user_stats.
get_user_stats(table, user_id) ==
    [total_messages  |-> Cardinality({i \in 1..Len(table) : table[i].user_id = Some(user_id)}),
     unique_sessions |-> Cardinality(UserSessionIds(table, user_id))]

\* Arguments of the reports on a user's history.
ReportUsers  == {1, 2}
PageLimits   == {1, 2}
PageOffsets  == {0, 1}

GetUserChatHistory(user_id, limit, offset, ties) ==
    /\ ret'  = get_user_chat_history(chat_history, user_id, limit, offset, ties)
    /\ call' = [op |-> "get_user_chat_history", user_id |-> user_id,
                limit |-> limit, offset |-> offset]
    /\ UNCHANGED chat_history

GetUserSessions(user_id) ==
    /\ ret'  \in get_user_sessions(chat_history, user_id)
    /\ call' = [op |-> "get_user_sessions", user_id |-> user_id]
    /\ UNCHANGED chat_history

GetUserStats(user_id) ==
    /\ ret'  = get_user_stats(chat_history, user_id)
    /\ call' = [op |-> "get_user_stats", user_id |-> user_id]
    /\ UNCHANGED chat_history

\* Writes to the table and the reports read from it.
ReportNext ==
    \/ \E session_id \in SessionIds, user_id \in UserIds :
           SaveChatMessage(session_id, user_id) /\ HistFrame
    \/ \E user_id \in ReportUsers, limit \in PageLimits, offset \in PageOffsets,
          ties \in {"after", "before"} :
           GetUserChatHistory(user_id, limit, offset, ties) /\ HistFrame
    \/ \E user_id \in ReportUsers : GetUserSessions(user_id) /\ HistFrame
    \/ \E user_id \in ReportUsers : GetUserStats(user_id) /\ HistFrame
    \/ HistTick
    \/ HistClockStepBack

-----------------------------------------------------------------------------
(* Source ranker: streamlit_chatbot.py, _format_sources *)

\* The length at which the deduplication loop stops.
MaxUnique == 20

\* source.get('metadata', {}).get('mission_id', ''): "" stands for a source
\* that carries no mission identifier.
MissionOf(source) == source.metadata.mission_id

\* An index that names the last position of the list whatever is sought.
IndexOfLast(seq, x) == Len(seq)

\* unique_sources.index(x): the first position holding a value equal to x.
IndexOf(seq, x) ==
    CHOOSE i \in 1..Len(seq) : seq[i] = x /\ \A j \in 1..(i - 1) : seq[j] # x

\* One iteration of the loop body (lines 96-108) on the pair
\* [seen |-> seen_missions, unique |-> unique_sources].
DedupStep(st, source) ==
    LET mission_id == MissionOf(source)
    IN  IF mission_id # ""
        THEN IF mission_id \notin DOMAIN st.seen
             THEN [seen   |-> (mission_id :> source) @@ st.seen,
                   unique |-> Append(st.unique, source)]
             ELSE IF source.score > st.seen[mission_id].score
                  THEN [seen   |-> [st.seen EXCEPT ![mission_id] = source],
                        unique |-> [st.unique EXCEPT
                                      ![IndexOf(st.unique, st.seen[mission_id])] = source]]
                  ELSE st
        ELSE [seen |-> st.seen, unique |-> Append(st.unique, source)]

\* The for loop from source number i on, with its break.
RECURSIVE DedupLoop(_, _, _)
DedupLoop(srcs, i, st) ==
    IF i > Len(srcs) THEN st
    ELSE LET next == DedupStep(st, srcs[i])
         IN  IF Len(next.unique) >= MaxUnique THEN next
             ELSE DedupLoop(srcs, i + 1, next)

\* list.sort(key=score, reverse=True) is stable: of two sources of equal
\* score the one that came first stays first.
InsertByScoreDesc(sorted, source) ==
    LET k == Cardinality({i \in 1..Len(sorted) : sorted[i].score >= source.score})
    IN  SubSeq(sorted, 1, k) \o <<source>> \o SubSeq(sorted, k + 1, Len(sorted))

\* A descending sort made of an ascending sort and a reversal: sources of
\* equal score change places.
RECURSIVE SortAscending(_)
SortAscending(seq) ==
    IF seq = <<>> THEN <<>>
    ELSE LET rest == SortAscending(SubSeq(seq, 1, Len(seq) - 1))
             x    == seq[Len(seq)]
             k    == Cardinality({i \in 1..Len(rest) : rest[i].score <= x.score})
         IN  SubSeq(rest, 1, k) \o <<x>> \o SubSeq(rest, k + 1, Len(rest))

SortAscendingReversed(seq) ==
    [i \in 1..Len(seq) |-> SortAscending(seq)[Len(seq) + 1 - i]]

RECURSIVE SortByScoreDesc(_)
SortByScoreDesc(seq) ==
    IF seq = <<>> THEN <<>>
    ELSE InsertByScoreDesc(SortByScoreDesc(SubSeq(seq, 1, Len(seq) - 1)), seq[Len(seq)])

\* unique_sources as _format_sources has it after line 114.
RankedSources(srcs) ==
    IF srcs = <<>> THEN <<>>
    ELSE SortByScoreDesc(DedupLoop(srcs, 1, [seen |-> <<>>, unique |-> <<>>]).unique)

\* The text _format_sources returns: one numbered line per ranked source.
RECURSIVE SourceLines(_, _)
SourceLines(ranked, i) ==
    IF i > Len(ranked) THEN <<>>
    ELSE <<[n |-> i, title |-> ranked[i].metadata.title, relevance |-> ranked[i].score]>>
         \o SourceLines(ranked, i + 1)

format_sources(srcs) ==
    IF srcs = <<>> THEN <<>>
    ELSE <<"Sources:">> \o SourceLines(RankedSources(srcs), 1)

\* Source lists: up to MaxLen sources, and the same lists with a run of
\* PadLen sources without a mission identifier inserted at any position, so
\* that the loop reaches MaxUnique.
Titles     == {"A", "B"}
MissionIds == {"", "m1", "m2"}
Scores     == {4, 9}
PadLen     == MaxUnique - 1

SourceDomain == [metadata : [title : Titles, mission_id : MissionIds], score : Scores]
Filler == [metadata |-> [title |-> "filler", mission_id |-> ""], score |-> 4]
Pad(k) == [i \in 1..k |-> Filler]
ShortLists == UNION {[1..n -> SourceDomain] : n \in 0..MaxLen}
\* Lists in which a second source of a mission comes after a source of
\* another group.
OfMission(mission_id) == {source \in SourceDomain : MissionOf(source) = mission_id}
ReplacementLists ==
    {<<first, other, second>> :
        first \in OfMission("m1"), other \in SourceDomain, second \in OfMission("m1")}
RankInputs ==
    ReplacementLists \cup
    UNION {{SubSeq(l, 1, j) \o Pad(k) \o SubSeq(l, j + 1, Len(l)) :
               j \in 0..Len(l), k \in {0, PadLen}} : l \in ShortLists}

FormatSources ==
    /\ rk_pc = "called"
    /\ unique_sources' = RankedSources(sources)
    /\ rk_pc' = "done"
    /\ UNCHANGED <<sources, rk_first>>
    /\ UNCHANGED <<now, txn, users, chat_history, call, ret, ss, result>>

\* The pass applied to its own output.
FormatSourcesAgain ==
    /\ rk_pc = "done"
    /\ sources' = unique_sources
    /\ rk_first' = unique_sources
    /\ unique_sources' = RankedSources(unique_sources)
    /\ rk_pc' = "again"
    /\ UNCHANGED <<now, txn, users, chat_history, call, ret, ss, result>>

RankInit ==
    /\ sources \in RankInputs
    /\ unique_sources = <<>>
    /\ rk_pc = "called"
    /\ rk_first = <<>>

RankIdle ==
    /\ sources = <<>>
    /\ unique_sources = <<>>
    /\ rk_pc = "idle"
    /\ rk_first = <<>>

RankNext ==
    \/ FormatSources
    \/ FormatSourcesAgain

-----------------------------------------------------------------------------
(* Client session: streamlit_chatbot.py, StreamlitSpaceMissionChatbot.       *)
(* Every interaction runs the script once: run() renders the header, the    *)
(* modals, the sidebar and the chat interface in this order, and the handler *)
(* of the widget that was used runs at the widget's place.  An action is one *)
(* such run together with the run st.rerun() starts.                         *)

\* st.session_state after StreamlitSpaceMissionChatbot.__init__ (and
\* AuthManager._init_session_state, which adds `user`).
SessionInit ==
    [initialized       |-> FALSE,
     messages          |-> <<>>,
     session_id        |-> "s1",
     show_sources      |-> TRUE,
     query_count       |-> 0,
     query_engine      |-> None,
     authenticated     |-> "False",
     current_user      |-> None,
     show_login_modal  |-> FALSE,
     show_signup_modal |-> FALSE,
     current_page      |-> "chat",
     user              |-> None]

\* run(), lines 473-494: the query engine is built once.
EngineInit(s) ==
    [s EXCEPT !.query_engine = Some("SpaceMissionQueryEngine"),
              !.initialized = TRUE,
              !.authenticated = "True"]

\* The message _load_user_history appends for one history entry.
HistoryMessage(msg) ==
    [role      |-> msg.message_type,
     content   |-> msg.message,
     timestamp |-> msg.created_at,
     sources   |-> msg.sources]

\* _load_user_history (and the same test at lines 381-382).
load_user_history(s, table, ties) ==
    IF s.current_user # None /\ Len(s.messages) = 0
    THEN LET history == get_session_chat_history(table, s.session_id, ties)
         IN  [s EXCEPT !.messages = [k \in 1..Len(history) |-> HistoryMessage(history[k])]]
    ELSE s

\* What a run does after the header and the modals when no widget below is
\* used: the about page, or the sidebar and the chat interface.
RenderPage(s, table, ties) ==
    IF s.current_page = "about" THEN s ELSE load_user_history(s, table, ties)

\* The write without the test for a logged-in user: a guest's message is
\* stored with no user id.
save_message_always(s, table, role, content, srcs) ==
    save_chat_message(table, s.session_id, role, content, srcs,
                      IF s.current_user # None THEN Some(s.current_user[1].id) ELSE None)

\* _save_message_to_db: the table after the call.
save_message_to_db(s, table, role, content, srcs) ==
    IF s.current_user # None
    THEN save_chat_message(table, s.session_id, role, content, srcs,
                           Some(s.current_user[1].id))
    ELSE table

\* A substitute reply that reports the time the failed call took.
ErrorResultTimed(error) ==
    [response |-> <<"Error processing query: ", error>>,
     sources  |-> <<>>,
     metadata |-> [response_time |-> 2]]

\* The reply _process_query substitutes when the engine raises.
ErrorResult(error) ==
    [response |-> <<"Error processing query: ", error>>,
     sources  |-> <<>>,
     metadata |-> [response_time |-> 0]]

\* _process_query: the session state and the returned result.  `outcome` is
\* what query_engine.query does: it returns a value or raises an error.
process_query(s, outcome) ==
    IF outcome.kind = "ok"
    THEN [s |-> [s EXCEPT !.query_count = @ + 1], result |-> outcome.value]
    ELSE [s |-> s, result |-> ErrorResult(outcome.error)]

\* Lines 424-430: the text shown and the sources kept with the message.
ResponseText(s, res) ==
    IF s.show_sources /\ res.sources # <<>>
    THEN res.response \o format_sources(res.sources)
    ELSE res.response

SourcesData(s, res) ==
    IF s.show_sources /\ res.sources # <<>> THEN res.sources ELSE <<>>

UserMessage(query) ==
    [role |-> "user", content |-> query, timestamp |-> now]

AssistantMessage(s, res) ==
    [role      |-> "assistant",
     content   |-> ResponseText(s, res),
     timestamp |-> now,
     metadata  |-> res.metadata,
     sources   |-> Some(SourcesData(s, res))]

\* render_chat_interface from line 403 on, for a query submitted in session
\* state s: the session state and the table it leaves, and the result of
\* _process_query with what the engine did.
handle_query(s, table, query, outcome) ==
    LET s1  == [s EXCEPT !.messages = Append(@, UserMessage(query))]
        t1  == save_message_to_db(s1, table, "user", query, <<>>)
        pq  == process_query(s1, outcome)
        res == pq.result
        s2  == [pq.s EXCEPT !.messages = Append(@, AssistantMessage(pq.s, res))]
        t2  == save_message_to_db(s2, t1, "assistant", ResponseText(pq.s, res),
                                  SourcesData(pq.s, res))
    IN  [s |-> s2, table |-> t2, result |-> Some([engine |-> outcome, value |-> res])]

\* render_chat_interface from line 403 on when save_chat_message raises on
\* the write of the turn named by failing: nothing between the write and the
\* end of the script run is executed, and the exception leaves the run.
handle_query_storage_error(s, table, query, outcome, failing) ==
    LET s1  == [s EXCEPT !.messages = Append(@, UserMessage(query))]
        t1  == save_message_to_db(s1, table, "user", query, <<>>)
        pq  == process_query(s1, outcome)
        res == pq.result
        s2  == [pq.s EXCEPT !.messages = Append(@, AssistantMessage(pq.s, res))]
    IN  IF failing = "user"
        THEN [s |-> s1, table |-> table, result |-> None]
        ELSE [s |-> s2, table |-> t1,
              result |-> Some([engine |-> outcome, value |-> res])]

\* Inputs of the client session.
TieOrders    == {"after", "before"}
Examples     == {"What orbit regimes have been used for SAR imaging satellites?"}
Queries      == Examples
SignupNames  == {<<"alice", "a@x.com">>, <<"bob", "b@x.com">>, <<"bob", "a@x.com">>}
LoginNames   == {"alice", "bob", "b@x.com"}
FormPasswords ==
    {<<"A", "b", "c", "d", "e", "f", "1", "2">>,
     <<"a", "b", "c">>}
SignupPasswords ==
    FormPasswords \cup {<<"a", "b", "c", "d", "e", "f">>,
                        <<"A", "B", "C", "D", "E", "F", "G", "H">>}
EngineErrors == {"timeout", "connection refused"}
EngineSources ==
    {<<[metadata |-> [title |-> "A", mission_id |-> "m1"], score |-> 4],
       [metadata |-> [title |-> "B", mission_id |-> "m1"], score |-> 9]>>}
EngineOutcomes ==
    {[kind |-> "ok",
      value |-> [response |-> <<"answer">>, sources |-> srcs,
                 metadata |-> [response_time |-> 2]]] : srcs \in EngineSources}
    \cup {[kind |-> "raise", error |-> e] : e \in EngineErrors}

\* What a run of the client session leaves alone.
AppFrame == UNCHANGED <<now, txn, sources, unique_sources, rk_pc, rk_first>>

NoStoreCall ==
    /\ call' = [op |-> "none"]
    /\ ret' = None

\* The first runs of the script: the engine is built, or building it fails
\* and st.stop() ends the run before anything is rendered.
StartEngine ==
    /\ ~ss.initialized
    /\ \E ok \in BOOLEAN, ties \in TieOrders :
          ss' = IF ok THEN RenderPage(EngineInit(ss), chat_history, ties) ELSE ss
    /\ result' = None
    /\ NoStoreCall
    /\ UNCHANGED <<users, chat_history>>
    /\ AppFrame

\* render_header, lines 167-173: the page buttons.
Navigate(page) ==
    /\ ss.initialized
    /\ \E ties \in TieOrders :
          ss' = RenderPage([ss EXCEPT !.current_page = page], chat_history, ties)
    /\ result' = None
    /\ NoStoreCall
    /\ UNCHANGED <<users, chat_history>>
    /\ AppFrame

\* render_header, lines 179-181 and 191-193: the Login and Sign Up buttons.
HeaderLogin ==
    /\ ss.initialized
    /\ ss.current_user = None
    /\ \E ties \in TieOrders :
          ss' = RenderPage([ss EXCEPT !.show_login_modal = TRUE], chat_history, ties)
    /\ result' = None
    /\ NoStoreCall
    /\ UNCHANGED <<users, chat_history>>
    /\ AppFrame

HeaderSignUp ==
    /\ ss.initialized
    /\ ss.current_user = None
    /\ \E ties \in TieOrders :
          ss' = RenderPage([ss EXCEPT !.show_signup_modal = TRUE], chat_history, ties)
    /\ result' = None
    /\ NoStoreCall
    /\ UNCHANGED <<users, chat_history>>
    /\ AppFrame

\* render_header, lines 184-189: the Logout button.
HeaderLogout ==
    /\ ss.initialized
    /\ ss.current_user # None
    /\ \E ties \in TieOrders :
          ss' = RenderPage([ss EXCEPT !.authenticated = "False",
                                      !.current_user = None,
                                      !.messages = <<>>], chat_history, ties)
    /\ result' = None
    /\ NoStoreCall
    /\ UNCHANGED <<users, chat_history>>
    /\ AppFrame

\* render_login_modal, lines 209-218: the form's Login button.  A failed
\* login shows an error and reruns nothing.
LoginSubmit(username, password) ==
    /\ ss.initialized
    /\ ss.show_login_modal
    /\ \E i \in FirstChoices(users, username), ties \in TieOrders :
          LET user == authenticate_user_ret(users, i, password)
          IN  /\ users' = authenticate_user_table(users, i, password)
              /\ ret' = user
              /\ ss' = IF user # None
                       THEN RenderPage([ss EXCEPT !.current_user = user,
                                                  !.authenticated = "True",
                                                  !.show_login_modal = FALSE],
                                       chat_history, ties)
                       ELSE ss
    /\ call' = [op |-> "login"]
    /\ result' = None
    /\ UNCHANGED chat_history
    /\ AppFrame

\* render_login_modal, lines 220-222.
LoginCancel ==
    /\ ss.initialized
    /\ ss.show_login_modal
    /\ \E ties \in TieOrders :
          ss' = RenderPage([ss EXCEPT !.show_login_modal = FALSE], chat_history, ties)
    /\ result' = None
    /\ NoStoreCall
    /\ UNCHANGED <<users, chat_history>>
    /\ AppFrame

\* auth_manager.py, validate_password: the first rule the password breaks.
\* A password is the sequence of its characters.
UpperCase == {"A", "B", "C", "D", "E", "F", "G", "H", "I", "J", "K", "L", "M",
              "N", "O", "P", "Q", "R", "S", "T", "U", "V", "W", "X", "Y", "Z"}
LowerCase == {"a", "b", "c", "d", "e", "f", "g", "h", "i", "j", "k", "l", "m",
              "n", "o", "p", "q", "r", "s", "t", "u", "v", "w", "x", "y", "z"}
Digits    == {"0", "1", "2", "3", "4", "5", "6", "7", "8", "9"}

validate_password(password) ==
    IF Len(password) < 8
    THEN [valid |-> FALSE, msg |-> "Password must be at least 8 characters long"]
    ELSE IF ~\E i \in 1..Len(password) : password[i] \in UpperCase
    THEN [valid |-> FALSE, msg |-> "Password must contain at least one uppercase letter"]
    ELSE IF ~\E i \in 1..Len(password) : password[i] \in LowerCase
    THEN [valid |-> FALSE, msg |-> "Password must contain at least one lowercase letter"]
    ELSE IF ~\E i \in 1..Len(password) : password[i] \in Digits
    THEN [valid |-> FALSE, msg |-> "Password must contain at least one number"]
    ELSE [valid |-> TRUE, msg |-> "Password is valid"]

\* Passwords typed into the sign-up form of AuthManager: up to three
\* characters out of an uppercase letter, a lowercase letter, a digit and a
\* hyphen, and each of the three-character ones written three times over.
PolicyAlphabet  == {"A", "a", "1", "-"}
ShortPasswords  == UNION {[1..n -> PolicyAlphabet] : n \in {1, 2, 3}}
LongPasswords   == {p \o p \o p : p \in [1..3 -> PolicyAlphabet]}
PolicyPasswords == ShortPasswords \cup LongPasswords

\* _render_signup_form, lines 181-184: the password typed is validated and
\* the message of a failed validation is appended to the errors shown.
ValidatePassword(password) ==
    /\ call' = [op |-> "validate_password", password |-> password]
    /\ ret'  = LET v == validate_password(password)
               IN  [valid |-> v.valid, errors |-> IF v.valid THEN <<>> ELSE <<v.msg>>]
    /\ UNCHANGED <<now, txn, users, chat_history, sources, unique_sources, rk_pc,
                   rk_first, ss, result>>

PolicyNext == \E password \in PolicyPasswords : ValidatePassword(password)

\* The test the sign-up modal makes before it calls create_user.
SignupFormAccepts(new_password, confirm_password) ==
    /\ new_password = confirm_password
    /\ Len(new_password) >= 6

\* render_signup_modal, lines 243-257: the form's Sign Up button.
SignupSubmit(new_username, new_email, new_password, confirm_password, salt) ==
    /\ ss.initialized
    /\ ss.show_signup_modal
    /\ IF SignupFormAccepts(new_password, confirm_password)
       THEN /\ Len(users) < MaxUsers \/ IntegrityError(users, new_username, new_email)
            /\ LET user == create_user_ret(users, new_username, new_email, new_password, salt)
               IN  /\ users' = create_user_table(users, new_username, new_email,
                                                 new_password, salt)
                   /\ ret' = user
                   /\ call' = [op |-> "signup"]
                   /\ \E ties \in TieOrders :
                         ss' = IF user # None
                               THEN RenderPage([ss EXCEPT !.current_user = user,
                                                          !.authenticated = "True",
                                                          !.show_signup_modal = FALSE],
                                               chat_history, ties)
                               ELSE ss
       ELSE /\ NoStoreCall
            /\ UNCHANGED <<users, ss>>
    /\ result' = None
    /\ UNCHANGED chat_history
    /\ AppFrame

\* render_signup_modal, lines 259-261.
SignupCancel ==
    /\ ss.initialized
    /\ ss.show_signup_modal
    /\ \E ties \in TieOrders :
          ss' = RenderPage([ss EXCEPT !.show_signup_modal = FALSE], chat_history, ties)
    /\ result' = None
    /\ NoStoreCall
    /\ UNCHANGED <<users, chat_history>>
    /\ AppFrame

\* render_sidebar, lines 330-333: the checkbox; the run goes on to the chat
\* interface.
ToggleShowSources ==
    /\ ss.initialized
    /\ ss.current_page # "about"
    /\ \E ties \in TieOrders :
          ss' = load_user_history([ss EXCEPT !.show_sources = ~@], chat_history, ties)
    /\ result' = None
    /\ NoStoreCall
    /\ UNCHANGED <<users, chat_history>>
    /\ AppFrame

\* render_sidebar, lines 338-341: Clear Chat, and the run st.rerun() starts.
ClearChat ==
    /\ ss.initialized
    /\ ss.current_page # "about"
    /\ \E ties \in TieOrders :
          ss' = RenderPage([ss EXCEPT !.messages = <<>>, !.query_count = 0],
                           chat_history, ties)
    /\ result' = None
    /\ NoStoreCall
    /\ UNCHANGED <<users, chat_history>>
    /\ AppFrame

\* The limit View History passes to get_user_chat_history.
ViewHistoryLimit == 50

\* render_sidebar, lines 343-355: View History, offered to a logged-in user.
ViewHistory ==
    /\ ss.initialized
    /\ ss.current_page # "about"
    /\ ss.current_user # None
    /\ \E ties \in TieOrders :
          /\ ret' = get_user_chat_history(chat_history, ss.current_user[1].id,
                                          ViewHistoryLimit, 0, ties)
          /\ ss' = load_user_history(ss, chat_history, ties)
    /\ call' = [op |-> "view_history"]
    /\ result' = None
    /\ UNCHANGED <<users, chat_history>>
    /\ AppFrame

\* render_chat_interface: a query typed into st.chat_input, or the example
\* query a sidebar button stored before its st.rerun().  The conversation
\* holds at most max_messages messages and the counter stays below max_count.
SubmitQuery(query, outcomes, max_messages, max_count) ==
    /\ ss.initialized
    /\ ss.current_page # "about"
    /\ \E outcome \in outcomes, ties \in TieOrders :
          LET s0 == load_user_history(ss, chat_history, ties)
              h  == handle_query(s0, chat_history, query, outcome)
          IN  /\ Len(s0.messages) + 2 <= max_messages
              /\ s0.query_count < max_count
              /\ s0.current_user # None => Len(chat_history) + 2 <= MaxRows
              /\ s0.current_user # None => NextChatId(chat_history) + 1 <= MaxChatId
              /\ ss' = h.s
              /\ chat_history' = h.table
              /\ result' = h.result
    /\ NoStoreCall
    /\ UNCHANGED users
    /\ AppFrame

ChatInput == \E query \in Queries : SubmitQuery(query, EngineOutcomes, MaxMsgs, MaxCount)

ExampleClick == \E query \in Examples : SubmitQuery(query, EngineOutcomes, MaxMsgs, MaxCount)

\* render_chat_interface for a logged-in user when the database refuses the
\* write of one of the two turns: save_chat_message has no except clause and
\* neither _save_message_to_db nor render_chat_interface catches.
SubmitQueryStorageError(query, failing) ==
    /\ ss.initialized
    /\ ss.current_page # "about"
    /\ \E outcome \in EngineOutcomes, ties \in TieOrders :
          LET s0 == load_user_history(ss, chat_history, ties)
              h  == handle_query_storage_error(s0, chat_history, query, outcome, failing)
          IN  /\ s0.current_user # None
              /\ Len(s0.messages) + 2 <= MaxMsgs
              /\ s0.query_count < MaxCount
              /\ Len(chat_history) + 2 <= MaxRows
              /\ NextChatId(chat_history) + 1 <= MaxChatId
              /\ ss' = h.s
              /\ chat_history' = h.table
              /\ result' = h.result
    /\ call' = [op |-> "save_chat_message", message_type |-> failing]
    /\ ret' = Raise("OperationalError")
    /\ UNCHANGED users
    /\ AppFrame

AppInit ==
    /\ ss = SessionInit
    /\ result = None

AppNext ==
    \/ StartEngine
    \/ \E page \in {"chat", "about"} : Navigate(page)
    \/ HeaderLogin
    \/ HeaderSignUp
    \/ HeaderLogout
    \/ \E username \in LoginNames, password \in FormPasswords :
          LoginSubmit(username, password)
    \/ LoginCancel
    \/ \E new \in SignupNames, new_password \in FormPasswords,
          confirm_password \in FormPasswords, salt \in Salts :
          SignupSubmit(new[1], new[2], new_password, confirm_password, salt)
    \/ SignupCancel
    \/ ToggleShowSources
    \/ ClearChat
    \/ ViewHistory
    \/ ChatInput
    \/ ExampleClick

-----------------------------------------------------------------------------
(* Specifications *)

StoreIdle ==
    /\ now = 0
    /\ call = [op |-> "none"]
    /\ ret = None
    /\ txn = [p \in DbSessions |-> NoTxn]

AppIdle ==
    /\ ss = SessionInit
    /\ result = None

\* The credential store under arbitrary calls.
InitCred == StoreIdle /\ CredInit /\ HistInit /\ RankIdle /\ AppIdle
SpecCred == InitCred /\ [][CredNext]_vars

\* The credential store when the database may fail a commit.
CredFaultNext ==
    \/ CredNext
    \/ \E username_or_email \in Names, password \in Passwords :
           AuthenticateUserCommitFails(username_or_email, password) /\ CredFrame

SpecCredFault == InitCred /\ [][CredFaultNext]_vars

\* create_user called concurrently from two client sessions.
InitConc == StoreIdle /\ CredInit /\ HistInit /\ RankIdle /\ AppIdle
SpecConc == InitConc /\ [][ConcNext]_vars

\* The chat history store under arbitrary calls.
InitHist == StoreIdle /\ CredInit /\ HistInit /\ RankIdle /\ AppIdle
SpecHist == InitHist /\ [][HistNext]_vars

\* The source ranker on every bounded source list.
InitRank == StoreIdle /\ CredInit /\ HistInit /\ RankInit /\ AppIdle
SpecRank == InitRank /\ [][RankNext]_vars

\* The client session on an empty database.
InitApp == StoreIdle /\ CredInit /\ HistInit /\ RankIdle /\ AppInit
SpecApp == InitApp /\ [][AppNext]_vars

SpecReport == InitHist /\ [][ReportNext]_vars

\* The password validation of AuthManager on its own.
SpecPolicy == InitCred /\ [][PolicyNext]_vars

\* The chat application on a database that can refuse a write.
StorageNext ==
    \/ AppNext
    \/ \E query \in Queries : SubmitQueryStorageError(query, "user")
    \/ \E query \in Queries : SubmitQueryStorageError(query, "assistant")

SpecStorage == InitApp /\ [][StorageNext]_vars

\* The sign-up dialog alone, on more passwords.
SignupNext ==
    \/ StartEngine
    \/ \E page \in {"chat", "about"} : Navigate(page)
    \/ HeaderSignUp
    \/ HeaderLogout
    \/ \E new \in SignupNames, new_password \in SignupPasswords,
          confirm_password \in SignupPasswords, salt \in Salts :
          SignupSubmit(new[1], new[2], new_password, confirm_password, salt)
    \/ SignupCancel

SpecSignup == InitApp /\ [][SignupNext]_vars

\* A burst of queries of a guest: the rate limiter of the design, 10 queries
\* of a guest and 30 of a registered caller in a window of 60 time units.
GuestCeiling      == 10
RegisteredCeiling == 30
RateWindow        == 60

BurstOutcomes == {o \in EngineOutcomes : o.kind = "ok" \/ o.error = "timeout"}

BurstQuery ==
    \E query \in Queries :
        SubmitQuery(query, BurstOutcomes, 2 * (GuestCeiling + 1), GuestCeiling + 1)

BurstTick ==
    /\ Tick
    /\ UNCHANGED <<users, call, ret, chat_history, sources, unique_sources, rk_pc,
                   rk_first, ss, result, txn>>

BurstNext ==
    \/ StartEngine
    \/ BurstQuery
    \/ BurstTick

SpecBurst == InitApp /\ [][BurstNext]_vars

-----------------------------------------------------------------------------
(* Claims on the credential store *)

\* An account already stored carries the username or the email.
Duplicates(table, username, email) ==
    \E i \in 1..Len(table) : table[i].username = username \/ table[i].email = email

UniqueAccounts ==
    \A i, j \in 1..Len(users) :
        i # j => /\ users[i].username # users[j].username
                 /\ users[i].email # users[j].email

\* C1: after any sequence of create_user calls the stored accounts have
\* pairwise distinct usernames and pairwise distinct emails, and a call whose
\* username or email is already stored returns None and leaves the table,
\* and so its row count, unchanged.
C1_Uniqueness ==
    /\ []UniqueAccounts
    /\ [][\A username \in Names, email \in Names, password \in Passwords, salt \in Salts :
             (/\ CreateUser(username, email, password, salt) /\ CredFrame
              /\ Duplicates(users, username, email))
             => (ret' = None /\ users' = users /\ Len(users') = Len(users))]_vars

\* C1 witness: two accounts are stored and a further create_user was refused.
C1_Witness ==
    /\ Len(users) = 2
    /\ call.op = "create_user"
    /\ ret = None

\* C2: authenticate_user returns an account exactly when some active account
\* has the identifier as its username or its email and a hash that verifies
\* the password, and the account it returns is active.
C2_AuthSymmetry ==
    call.op = "authenticate_user" =>
        /\ (ret # None) <=>
               \E i \in 1..Len(users) :
                   /\ users[i].is_active
                   /\ users[i].username = call.identifier \/ users[i].email = call.identifier
                   /\ checkpw(call.password, users[i].password_hash)
        /\ ret # None => \E i \in 1..Len(users) : users[i].id = ret[1].id /\ users[i].is_active

\* Why no account authenticates the identifier with the password: no row has
\* the identifier, or each row that has it is inactive or has another
\* password.
NoValidAccount(table, username_or_email, password) ==
    \A i \in MatchingUsers(table, username_or_email) :
        ~table[i].is_active \/ ~checkpw(password, table[i].password_hash)

\* C17: a failed authenticate_user is the same whatever its cause: for an
\* unknown identifier, a wrong password and an inactive account it returns
\* None and leaves the table as it was.
C17_UniformFailure ==
    [][\A username_or_email \in Names, password \in Passwords :
          (/\ AuthenticateUser(username_or_email, password) /\ CredFrame
           /\ \/ NoValidAccount(users, username_or_email, password)
              \/ ret' = None)
          => (ret' = None /\ users' = users)]_vars

\* C17 witness: authenticate_user has failed on an inactive account whose
\* password verifies, next to an account that is active.
C17_Witness ==
    /\ call.op = "authenticate_user"
    /\ ret = None
    /\ \E i, j \in 1..Len(users) :
           /\ ~users[i].is_active
           /\ users[i].username = call.identifier \/ users[i].email = call.identifier
           /\ checkpw(call.password, users[i].password_hash)
           /\ users[j].is_active

\* C18: when the identifier matches an active account and the password
\* verifies, authenticate_user returns the account also when the write of
\* last_login fails; when the write succeeds, last_login of that account
\* and of no other is set to the current time.
C18_LastLoginNonFatal ==
    [][\A username_or_email \in Names, password \in Passwords :
          /\ (AuthenticateUserCommitFails(username_or_email, password) /\ CredFrame)
             => (/\ Len(ret') = 1
                 /\ ret'[1].username = username_or_email
                    \/ ret'[1].email = username_or_email)
          /\ (AuthenticateUser(username_or_email, password) /\ CredFrame /\ ret' # None)
             => \E i \in 1..Len(users) :
                    /\ users[i].id = ret'[1].id
                    /\ users' = [users EXCEPT ![i].last_login = Some(now)]]_vars

\* Two calls collide when they carry the same username or the same email.
Collide(a, b) == a.username = b.username \/ a.email = b.email

AccountsOf(t) ==
    {i \in 1..Len(users) : users[i].username = t.username \/ users[i].email = t.email}

\* C16: of two concurrent create_user calls with the same username or the
\* same email at most one returns an account and the other returns None;
\* the table never holds two accounts with one username or one email, a call
\* that returned an account left exactly that row, and a pair of colliding
\* calls leaves exactly one account with the username or email of each.
C16_ConcurrentCreate ==
    /\ UniqueAccounts
    /\ \A p \in DbSessions :
           (txn[p].pc = "returned" /\ txn[p].ret # None) =>
               \E i \in 1..Len(users) :
                   /\ users[i].id = txn[p].ret[1].id
                   /\ users[i].username = txn[p].username
                   /\ users[i].email = txn[p].email
    /\ \A p, q \in DbSessions :
           (/\ p # q
            /\ txn[p].pc = "returned" /\ txn[q].pc = "returned"
            /\ Collide(txn[p], txn[q])) =>
               /\ txn[p].ret = None \/ txn[q].ret = None
               /\ (txn[p].ret # None \/ txn[q].ret # None) =>
                      Cardinality(AccountsOf(txn[p]) \cap AccountsOf(txn[q])) = 1

\* C16 witness: two calls with the same email and different usernames were
\* open at the same time and both have returned, one of them with an account.
C16_Witness ==
    /\ txn["t1"].pc = "returned" /\ txn["t2"].pc = "returned"
    /\ txn["t1"].email = txn["t2"].email
    /\ txn["t1"].username # txn["t2"].username
    /\ txn["t1"].ret = None
    /\ txn["t2"].ret # None
    /\ Len(users) = 1

\* C27: a step of create_user or authenticate_user keeps every stored account
\* in its place with its id, username, email and password hash, and with all
\* its other fields but last_login; last_login of an account changes only in
\* an authenticate_user call that returns that account.
C27_AccountsImmutable ==
    [][/\ Len(users') >= Len(users)
       /\ \A i \in 1..Len(users) :
             /\ users'[i].id = users[i].id
             /\ users'[i].username = users[i].username
             /\ users'[i].email = users[i].email
             /\ users'[i].password_hash = users[i].password_hash
             /\ call'.op \in {"create_user", "authenticate_user"} =>
                    users'[i] = [users[i] EXCEPT !.last_login = users'[i].last_login]
             /\ users'[i].last_login # users[i].last_login =>
                    /\ call'.op = "authenticate_user"
                    /\ ret' # None
                    /\ ret'[1].id = users[i].id]_vars

\* C27 witness: an authenticate_user call on a table of two accounts has
\* returned one of them, whose last_login it set, and the other account has
\* never been logged in to.
C27_Witness ==
    /\ call.op = "authenticate_user"
    /\ ret # None
    /\ Len(users) = 2
    /\ \E i, j \in 1..Len(users) :
           /\ users[i].id = ret[1].id
           /\ users[i].last_login = Some(now)
           /\ users[j].id # ret[1].id
           /\ users[j].last_login = None

-----------------------------------------------------------------------------
(* Claims on the source ranker *)

EntriesOf(list, mission_id) == {i \in 1..Len(list) : MissionOf(list[i]) = mission_id}

\* C3: the ranked list holds at most one entry per mission identifier, and
\* the entry of a mission carries the highest score any source of the input
\* has for that mission, wherever the source stands in the input.
C3_DedupKeepsBest ==
    rk_pc = "done" =>
        \A m \in MissionIds \ {""} :
            /\ Cardinality(EntriesOf(unique_sources, m)) <= 1
            /\ \A i \in EntriesOf(unique_sources, m) :
                   \A j \in EntriesOf(sources, m) :
                       unique_sources[i].score >= sources[j].score

\* C4: a second pass over the list a pass produced returns that list, the
\* same sources in the same order.
C4_Idempotent ==
    rk_pc = "again" => unique_sources = rk_first

\* C4 witness: a second pass has run on a list in which two different
\* sources have the same score.
C4_Witness ==
    /\ rk_pc = "again"
    /\ \E i, j \in 1..Len(rk_first) :
           i < j /\ rk_first[i].score = rk_first[j].score /\ rk_first[i] # rk_first[j]

\* The list the deduplication pass hands to the sort.
DedupPass(srcs) ==
    IF srcs = <<>> THEN <<>>
    ELSE DedupLoop(srcs, 1, [seen |-> <<>>, unique |-> <<>>]).unique

WithScore(list, score) ==
    LET Has(source) == source.score = score
    IN  SelectSeq(list, Has)

\* C14: the ranked list is in descending order of score, and the sources of
\* one score stand in it in the order the deduplication pass left them.
C14_StableDescending ==
    rk_pc = "called" \/
        /\ Len(unique_sources) = Len(DedupPass(sources))
        /\ \A i, j \in 1..Len(unique_sources) :
               i < j => unique_sources[i].score >= unique_sources[j].score
        /\ \A score \in Scores :
               WithScore(unique_sources, score) = WithScore(DedupPass(sources), score)

\* C14 witness: a first pass has ranked a list whose deduplicated form is not
\* in descending order and holds two different sources of one score.
C14_Witness ==
    /\ rk_pc = "done"
    /\ unique_sources # DedupPass(sources)
    /\ \E i, j \in 1..Len(unique_sources) :
           /\ i < j
           /\ unique_sources[i].score = unique_sources[j].score
           /\ unique_sources[i] # unique_sources[j]

\* The deduplication of the whole list: the loop without its break.
RECURSIVE DedupAll(_, _, _)
DedupAll(srcs, i, st) ==
    IF i > Len(srcs) THEN st
    ELSE DedupAll(srcs, i + 1, DedupStep(st, srcs[i]))

FullyRanked(srcs) ==
    SortByScoreDesc(DedupAll(srcs, 1, [seen |-> <<>>, unique |-> <<>>]).unique)

\* C19: the ranked list is the first MaxUnique entries of the whole list
\* deduplicated and sorted by descending score, so that no source left out
\* has a higher score than one that is in it.
C19_TruncateAfterRanking ==
    rk_pc = "done" =>
        /\ Len(unique_sources) <= MaxUnique
        /\ LET full == FullyRanked(sources)
               n    == IF Len(full) < MaxUnique THEN Len(full) ELSE MaxUnique
           IN  unique_sources = SubSeq(full, 1, n)

\* The positions of the list at which a group starts: every source without a
\* mission identifier, and the first source of each mission.
GroupStarts(list) ==
    {i \in 1..Len(list) :
        \/ MissionOf(list[i]) = ""
        \/ \A j \in 1..(i - 1) : MissionOf(list[j]) # MissionOf(list[i])}

\* The sources the loop reads before it ends: all of them, or those up to the
\* one that brings the number of groups to MaxUnique.
Processed(list) ==
    LET full == {i \in 1..Len(list) :
                    Cardinality(GroupStarts(list) \cap 1..i) >= MaxUnique}
    IN  IF full = {} THEN list
        ELSE SubSeq(list, 1, CHOOSE i \in full : \A j \in full : i <= j)

\* C23: the deduplication pass keeps one citation per group at the position
\* at which the group first came: a source without a mission identifier is
\* a group of its own and is kept as it is, and the citation of a mission,
\* replaced or not, stands where the first source of the mission stood among
\* the groups.
C23_ReplacementInPlace ==
    rk_pc = "done" =>
        LET read   == Processed(sources)
            starts == GroupStarts(read)
            kept   == DedupPass(sources)
        IN  /\ Len(kept) = Cardinality(starts)
            /\ \A i \in starts :
                   LET k == Cardinality({j \in starts : j <= i})
                   IN  IF MissionOf(read[i]) = ""
                       THEN kept[k] = read[i]
                       ELSE /\ MissionOf(kept[k]) = MissionOf(read[i])
                            /\ \E j \in 1..Len(read) : kept[k] = read[j]

\* C23 witness: a pass has read a source of a mission, then a source without
\* a mission identifier, then a higher-scored source of the mission, which
\* replaced the first.
C23_Witness ==
    /\ rk_pc = "done"
    /\ Len(sources) = 3
    /\ MissionOf(sources[1]) = "m1"
    /\ MissionOf(sources[2]) = ""
    /\ MissionOf(sources[3]) = "m1"
    /\ sources[3].score > sources[1].score
    /\ DedupPass(sources) = <<sources[3], sources[2]>>

-----------------------------------------------------------------------------
(* Claims on the chat history store *)

\* The rows of the table that are not of the session or not of the owner.
NotOwnedInSession(table, session_id, user_id) ==
    LET Other(chat) == chat.session_id # session_id \/ chat.user_id # user_id
    IN  SelectSeq(table, Other)

\* C5: delete_session_history with an owner id removes exactly the rows of
\* that session id whose user id is the owner's; rows of another user under
\* the same session id, guest rows and rows of other sessions stay as they are.
C5_DeletionScoped ==
    [][\A session_id \in SessionIds, user_id \in UserIds \ {None} :
          call' = [op |-> "delete_session_history", session_id |-> session_id,
                   user_id |-> user_id]
          => chat_history' = NotOwnedInSession(chat_history, session_id, user_id)]_vars

\* C5 witness: after a deletion by an owner, a row of another user is still
\* stored under the same session id, and a row stored before it is gone.
C5_Witness ==
    /\ call.op = "delete_session_history"
    /\ call.user_id # None
    /\ \E i \in 1..Len(chat_history) :
           /\ chat_history[i].session_id = call.session_id
           /\ chat_history[i].user_id \notin {None, call.user_id}
           /\ chat_history[i].id > 1
    /\ \A i \in 1..Len(chat_history) : chat_history[i].id # 1

\* C6: get_session_chat_history returns the stored rows of the session id,
\* each once, in ascending order of created_at.
C6_HistoryOrdered ==
    call.op = "get_session_chat_history" =>
        /\ \A i, j \in 1..Len(ret) : i < j => ret[i].created_at <= ret[j].created_at
        /\ \A i, j \in 1..Len(ret) : i # j => ret[i].id # ret[j].id
        /\ {ret[i] : i \in 1..Len(ret)} =
               {SessionHistoryEntry(chat_history[k]) :
                   k \in {n \in 1..Len(chat_history) :
                             chat_history[n].session_id = call.session_id}}

\* C6 witness: a history of two turns was returned for a session whose
\* later-stored row is the earlier one in time.
C6_Witness ==
    /\ call.op = "get_session_chat_history"
    /\ Len(ret) = 2
    /\ ret[1].created_at < ret[2].created_at
    /\ ret[1].id > ret[2].id

\* The ids of the rows stored for a user.
OwnIds(table, user_id) ==
    {table[i].id : i \in {k \in 1..Len(table) : table[k].user_id = Some(user_id)}}

IdsOf(history) == {history[i].id : i \in 1..Len(history)}

\* C25: get_user_chat_history returns only messages of the user, in
\* ascending order of creation time: those ranked offset+1 to offset+limit
\* by creation time descending; the page that follows, whatever order the
\* database gives to messages of equal creation time, shares no message
\* with it, and the first two pages together hold all the messages of a
\* user who has at most 2 * limit of them.
C25_PagedUserHistory ==
    call.op = "get_user_chat_history" =>
        LET own   == OwnIds(chat_history, call.user_id)
            rest  == Cardinality(own) - call.offset
            nexts == {get_user_chat_history(chat_history, call.user_id, call.limit,
                                            call.offset + call.limit, ties) :
                         ties \in {"after", "before"}}
        IN  /\ IdsOf(ret) \subseteq own
            /\ \A i, j \in 1..Len(ret) : i < j => ret[i].created_at <= ret[j].created_at
            /\ Len(ret) = IF rest < 0 THEN 0 ELSE IF rest < call.limit THEN rest ELSE call.limit
            /\ Cardinality(IdsOf(ret)) = Len(ret)
            /\ \A next \in nexts :
                   /\ IdsOf(next) \cap IdsOf(ret) = {}
                   /\ (call.offset = 0 /\ Cardinality(own) <= 2 * call.limit)
                          => IdsOf(next) \cup IdsOf(ret) = own

RECURSIVE SumOfCounts(_)
SumOfCounts(sessions) ==
    IF sessions = <<>> THEN 0
    ELSE Head(sessions).message_count + SumOfCounts(Tail(sessions))

-----------------------------------------------------------------------------
(* Claims on the client session *)

Registered(s) == s.current_user # None

CallerCeiling(s) == IF Registered(s) THEN RegisteredCeiling ELSE GuestCeiling

\* The user turns of the conversation made within the window that the first
\* of them opens.
TurnsInWindow(messages) ==
    LET turns == {i \in 1..Len(messages) : messages[i].role = "user"}
    IN  {i \in turns :
            \A k \in turns : messages[i].timestamp - messages[k].timestamp <= RateWindow}

\* C7: within one window of 60 time units at most the ceiling of queries,
\* 10 for a guest and 30 for a registered caller, is allowed; the next query
\* within the window is rejected.
C7_RateWindow ==
    Cardinality(TurnsInWindow(ss.messages)) <= CallerCeiling(ss)

\* C8: logout moves the session to Unauthenticated with an empty message
\* list and the initialized flag cleared, and leaves the persisted chat
\* messages and accounts unchanged.
C8_Logout ==
    [][HeaderLogout =>
          /\ ss'.authenticated = "False"
          /\ ss'.current_user = None
          /\ ss'.messages = <<>>
          /\ ss'.initialized = FALSE
          /\ chat_history' = chat_history
          /\ users' = users]_vars

\* C9: history browsing is performed only in a Registered session, a run of
\* a session that is not Registered writes nothing to the history store, and
\* every stored message carries the id of the user who was logged in.
C9_GuestNotPersisted ==
    /\ [](\A i \in 1..Len(chat_history) : chat_history[i].user_id # None)
    /\ [][/\ chat_history' # chat_history => Registered(ss)
          /\ ViewHistory => Registered(ss)]_vars

\* C9 witness: a guest turn has just been made in a session whose store
\* holds the two messages of an earlier turn of a registered user, and no
\* more.
C9_Witness ==
    /\ ~Registered(ss)
    /\ result # None
    /\ Len(ss.messages) = 2
    /\ Len(chat_history) = 2

\* C10 as stated: whatever the failure of the engine, the substitute reply
\* is one fixed reply.
C10_FixedReply ==
    (result # None /\ result[1].engine.kind = "raise")
    => result[1].value = ErrorResult(CHOOSE e \in EngineErrors : TRUE)

\* C10: when the engine call raises, the failure is not propagated: the
\* reply is the prefix "Error processing query: " followed by the text of
\* the error, with no sources and response time 0; it is the assistant
\* message added to the conversation, and the session still has its engine
\* and accepts queries.
C10_EngineFailureRecovered ==
    (result # None /\ result[1].engine.kind = "raise")
    => /\ result[1].value.response =
              <<"Error processing query: ", result[1].engine.error>>
       /\ result[1].value.sources = <<>>
       /\ result[1].value.metadata.response_time = 0
       /\ ss.messages[Len(ss.messages)].role = "assistant"
       /\ ss.messages[Len(ss.messages)].content = result[1].value.response
       /\ ss.messages[Len(ss.messages)].sources = Some(<<>>)
       /\ ss.initialized /\ ss.query_engine # None /\ ss.current_page # "about"

\* C10 witness: the engine has failed on the query of a registered user.
C10_Witness ==
    /\ result # None
    /\ result[1].engine.kind = "raise"
    /\ Registered(ss)
    /\ Len(ss.messages) >= 2

\* C11: when the write of the user's turn or of the assistant's turn fails
\* with a storage error, the engine is still queried, the reply is still
\* produced and appended to the conversation in memory, and the session
\* continues.
C11_StorageErrorCaught ==
    [][(\E query \in Queries, failing \in {"user", "assistant"} :
            SubmitQueryStorageError(query, failing))
        => /\ result' # None
           /\ Len(ss'.messages) = Len(load_user_history(ss, chat_history, "after").messages) + 2
           /\ ss'.messages[Len(ss'.messages)].role = "assistant"
           /\ ss'.initialized]_vars

\* The limiter of the specification refuses the next query of the session:
\* the window its first query opened is running and holds the ceiling.
LimiterRefuses(s) ==
    /\ Cardinality(TurnsInWindow(s.messages)) >= CallerCeiling(s)
    /\ \A i \in 1..Len(s.messages) : now - s.messages[i].timestamp <= RateWindow

\* C12: a query the rate limiter refuses has no effect: the engine is not
\* called, the conversation is unchanged and no message is written to the
\* history store.
C12_RefusedQueryNoEffect ==
    [][(BurstQuery /\ LimiterRefuses(ss))
        => /\ result' = None
           /\ ss'.messages = ss.messages
           /\ ss'.query_count = ss.query_count
           /\ chat_history' = chat_history]_vars

\* C13: when a session that conversed as a guest logs in or signs up, none
\* of the guest's messages remains in the conversation and none is written
\* to the chat history table.
C13_FreshRegisteredContext ==
    [][(~Registered(ss) /\ Registered(ss'))
        => /\ \A i \in 1..Len(ss.messages), j \in 1..Len(ss'.messages) :
                  ss'.messages[j] # ss.messages[i]
           /\ chat_history' = chat_history]_vars

\* C20: a query accepted in a registered session adds the user's turn to the
\* chat history table, and adds the assistant's turn if and only if the
\* engine call succeeded; the substitute reply of a failed call is not
\* written.
C20_AssistantPersistedOnSuccess ==
    [][((ChatInput \/ ExampleClick) /\ Registered(ss'))
        => LET n == Len(chat_history)
           IN  /\ Len(chat_history') =
                     n + (IF result'[1].engine.kind = "ok" THEN 2 ELSE 1)
               /\ chat_history'[n + 1].message_type = "user"]_vars

\* The rows of the chat history table stored under the id of the user logged
\* in to session state s.
OwnedRows(table, s) ==
    LET Own(chat) == chat.user_id = Some(s.current_user[1].id)
    IN  SelectSeq(table, Own)

\* C21: the conversation restored for the user logged in to a session holds
\* no message stored under another user's id: it is the transcript of the
\* rows of the session that the user owns, also when another user was logged
\* in to the same client session before.
C21_TranscriptOwnedByUser ==
    [][(Registered(ss') /\ ss'.messages # ss.messages /\ ~(ChatInput \/ ExampleClick))
        => \E ties \in TieOrders :
              ss'.messages =
                  load_user_history([ss' EXCEPT !.messages = <<>>],
                                    OwnedRows(chat_history', ss'), ties).messages]_vars

\* A conversation of user turns each immediately followed by its reply.
TurnsPaired(messages) ==
    /\ Len(messages) % 2 = 0
    /\ \A i \in 1..Len(messages) :
          messages[i].role = IF i % 2 = 1 THEN "user" ELSE "assistant"

\* C22: a submitted query is processed to completion before the next is
\* accepted: a conversation of user turns each followed by its reply is again
\* one after the query, also when the engine or a write to the chat history
\* table has failed.
C22_QueriesComplete ==
    [][(/\ \/ ChatInput
            \/ ExampleClick
            \/ \E query \in Queries, failing \in {"user", "assistant"} :
                  SubmitQueryStorageError(query, failing)
        /\ TurnsPaired(ss.messages))
        => TurnsPaired(ss'.messages)]_vars

\* C24: the source list kept with the assistant's message of a reply shown
\* with its sources, in the conversation and in the chat history table, is
\* the ranked list of the sources the engine returned: deduplicated, sorted
\* and truncated, not the list as returned.
C24_RankedSourcesAttached ==
    [][((ChatInput \/ ExampleClick) /\ ss.show_sources /\ result'[1].engine.kind = "ok")
        => LET ranked == RankedSources(result'[1].engine.value.sources)
               n      == Len(ss'.messages)
               rows   == Len(chat_history')
           IN  /\ ss'.messages[n].sources = Some(ranked)
               /\ Registered(ss') =>
                      chat_history'[rows].sources = Some(json_dumps(ranked))]_vars

\* The messages of the rules of the acceptance policy a password violates.
ViolatedRules(password) ==
    {rule \in {"Password must be at least 8 characters long",
               "Password must contain at least one uppercase letter",
               "Password must contain at least one lowercase letter",
               "Password must contain at least one number"} :
        \/ /\ rule = "Password must be at least 8 characters long"
           /\ Len(password) < 8
        \/ /\ rule = "Password must contain at least one uppercase letter"
           /\ \A i \in 1..Len(password) : password[i] \notin UpperCase
        \/ /\ rule = "Password must contain at least one lowercase letter"
           /\ \A i \in 1..Len(password) : password[i] \notin LowerCase
        \/ /\ rule = "Password must contain at least one number"
           /\ \A i \in 1..Len(password) : password[i] \notin Digits}

\* C28: the validation error of a password names every rule of the policy
\* the password violates, not only the first.
C28_EveryViolatedRule ==
    call.op = "validate_password" =>
        /\ ret.valid <=> ViolatedRules(call.password) = {}
        /\ {ret.errors[i] : i \in 1..Len(ret.errors)} = ViolatedRules(call.password)

\* C29: the authenticated flag of the session and its user record agree:
\* with the flag True a user record with an id is present, with the flag
\* 'guest' the record has no id, and without a user record the flag is False.
C29_FlagAgreesWithUser ==
    /\ ss.authenticated = "True" => (ss.user # None /\ ss.user[1].id # None)
    /\ ss.authenticated = "guest" => (ss.user # None /\ ss.user[1].id = None)
    /\ ss.user = None => ss.authenticated = "False"

\* C30: Clear Chat, in a guest session and in a registered one, leaves the
\* conversation empty and the query count 0 after the run it starts, and
\* leaves the chat history table unchanged.
C30_ClearChatEmpties ==
    [][ClearChat => /\ ss'.messages = <<>>
                    /\ ss'.query_count = 0
                    /\ chat_history' = chat_history]_vars

\* C15: the sign-up form of the program reaches create_user only with a
\* password of at least 8 characters that holds an uppercase letter, a
\* lowercase letter and a digit.
C15_PasswordPolicy ==
    [][\A new \in SignupNames, new_password \in SignupPasswords,
         confirm_password \in SignupPasswords, salt \in Salts :
          (/\ SignupSubmit(new[1], new[2], new_password, confirm_password, salt)
           /\ SignupFormAccepts(new_password, confirm_password))
          => validate_password(new_password).valid]_vars

====
